---- MODULE Spec2Model ----
(***************************************************************************)
(* A model of common_pygrpc/grpclib.py: the generic call-forwarding layer. *)
(* One remote call is followed end to end: the grpc_service wrapper builds *)
(* a call envelope and sends it through the stub that GrpcClient.connect   *)
(* returns; CommonService.handle (wrapped by rpc_log) decodes, resolves,   *)
(* invokes and encodes; the wrapper turns the decoded result envelope into *)
(* a return value or a raised error.                                       *)
(***************************************************************************)
EXTENDS Integers, Sequences, FiniteSets, TLC

VARIABLES
    stubs,          \* GrpcClient.stubs: server name -> address the stub's channel points at
    clazz_handler,  \* the service's namespace resolver ("default" until overridden)
    pc,             \* position of the call in progress: idle, sent, responded, done
    call,           \* the call site: which declared function, with which arguments
    req,            \* CommonRequest in flight (with the address it was sent to)
    resp,           \* what the stub's handle() gives back: a CommonResponse or a raised error
    srv,            \* what the dispatcher did for req: callable invoked, log record emitted
    outcome,        \* what the wrapper's caller observes
    ncalls,         \* number of requests sent so far (source of fresh request ids)
    registered,     \* history: server name -> the descriptor last passed to load for it
    installed,      \* history: the callable last passed to set_clazz_handler
    patch,          \* attributes of a declared function reassigned after decoration
    pool,           \* the server's worker threads, each inside handle for one request
    rpc_logger      \* the records the workers have written to the rpc_log logger

vars == <<stubs, clazz_handler, pc, call, req, resp, srv, outcome, ncalls,
          registered, installed, patch, pool, rpc_logger>>

(***************************************************************************)
(* Bounds of the model.                                                    *)
(***************************************************************************)
MaxCalls == 2       \* requests sent in one behaviour
MaxArgs == 2        \* values supplied at one call site (positional + by name)
MaxWorkers == 2     \* threads of the server's pool that run handle at once

(***************************************************************************)
(* Values.  A value is an int, a str of a given length, None, or a live    *)
(* object that json cannot represent.                                      *)
(***************************************************************************)
PyInt(n) == [t |-> "int", n |-> n]
PyStr(len) == [t |-> "str", n |-> len]
PyNone == [t |-> "none", n |-> 0]
PyObj == [t |-> "obj", n |-> 0]

Representable(v) == v.t # "obj"

EmptyMap == [k \in {} |-> PyNone]

Range(f) == {f[k] : k \in DOMAIN f}

(***************************************************************************)
(* Strings that the code splits are sequences of tokens; "." is the token  *)
(* str.split('.') cuts at.                                                 *)
(***************************************************************************)
Dot == "."

RECURSIVE split(_)
split(s) ==
    IF \A i \in DOMAIN s : s[i] # Dot
    THEN <<s>>
    ELSE LET i == CHOOSE j \in DOMAIN s : s[j] = Dot /\ \A k \in 1..(j - 1) : s[k] # Dot
         IN  <<SubSeq(s, 1, i - 1)>> \o split(SubSeq(s, i + 1, Len(s)))

(***************************************************************************)
(* json.dumps / json.loads and str.encode / bytes.decode.                  *)
(* A text is JSON syntax carrying a document, or garbage; bytes are valid  *)
(* UTF-8 carrying a text, or not.                                          *)
(***************************************************************************)
NoDoc == [keys |-> {}]
GarbageText == [syntax |-> "garbage", doc |-> NoDoc]
BadBytes == [utf8 |-> FALSE, text |-> GarbageText]
NoBytes == [utf8 |-> TRUE, text |-> GarbageText]

\* the values a document carries
DocValues(d) ==
    (IF "result" \in d.keys THEN {d.result} ELSE {})
    \cup (IF "args" \in d.keys THEN Range(d.args) ELSE {})
    \cup (IF "kwargs" \in d.keys THEN Range(d.kwargs) ELSE {})

json_dumps(d) ==
    IF \A v \in DocValues(d) : Representable(v)
    THEN [ok |-> TRUE, text |-> [syntax |-> "json", doc |-> d], excType |-> "", message |-> ""]
    ELSE [ok |-> FALSE, text |-> GarbageText, excType |-> "TypeError",
          message |-> "Object is not JSON serializable"]

json_loads(text) ==
    IF text.syntax = "json"
    THEN [ok |-> TRUE, doc |-> text.doc, excType |-> "", message |-> ""]
    ELSE [ok |-> FALSE, doc |-> NoDoc, excType |-> "JSONDecodeError",
          message |-> "Expecting value"]

encode_utf8(text) == [utf8 |-> TRUE, text |-> text]

decode_utf8(bytes) ==
    IF bytes.utf8
    THEN [ok |-> TRUE, text |-> bytes.text, excType |-> "", message |-> ""]
    ELSE [ok |-> FALSE, text |-> GarbageText, excType |-> "UnicodeDecodeError",
          message |-> "invalid start byte"]

(***************************************************************************)
(* The server process: the modules importlib can load, the attributes      *)
(* getattr finds on them, and what each callable does when called.         *)
(***************************************************************************)
Modules == {"math_ns"}

\* the str `None` stands for Python's None where a dict lacks the key
NoneName == "None"

\* a module object, where a str naming a module is expected
ModuleObject(name) == "<module '" \o name \o "'>"

IsModuleObject(v) == \E name \in Modules : v = ModuleObject(name)

import_module(name) ==
    IF name \in Modules
    THEN [ok |-> TRUE, obj |-> name, excType |-> "", message |-> ""]
    ELSE IF IsModuleObject(name)
    THEN [ok |-> FALSE, obj |-> "", excType |-> "AttributeError",
          message |-> "module has no attribute 'startswith'"]
    ELSE IF name = NoneName
    THEN [ok |-> FALSE, obj |-> "", excType |-> "AttributeError",
          message |-> "'NoneType' object has no attribute 'startswith'"]
    ELSE [ok |-> FALSE, obj |-> "", excType |-> "ModuleNotFoundError",
          message |-> "No module named"]

\* attribute names of each object of the server process
Attributes(obj) ==
    CASE obj = "math_ns" -> {"add", "boom", "quit", "mkset", "blob", "edge", "over", "Group"}
      [] obj = "math_ns.Group" -> {"action", "make", "reset"}
      [] OTHER -> {}

\* getattr(x, y): y is one segment of the split method path
getattr(x, y) ==
    IF Len(y) = 1 /\ y[1] \in Attributes(x)
    THEN [ok |-> TRUE, obj |-> x \o "." \o y[1], excType |-> "", message |-> ""]
    ELSE [ok |-> FALSE, obj |-> "", excType |-> "AttributeError",
          message |-> "object has no attribute"]

\* functools.reduce(lambda x, y: getattr(x, y), [module, *segments])
RECURSIVE reduce_getattr(_, _)
reduce_getattr(x, segments) ==
    IF segments = <<>>
    THEN [ok |-> TRUE, obj |-> x, excType |-> "", message |-> ""]
    ELSE LET first == getattr(x, Head(segments))
         IN  IF first.ok THEN reduce_getattr(first.obj, Tail(segments)) ELSE first

\* the exception classes `except Exception` does not catch
BaseOnly == {"SystemExit", "KeyboardInterrupt", "GeneratorExit"}

IsException(kind) == kind \notin BaseOnly

Param(name, dflt) == [name |-> name, dflt |-> dflt]

\* Python's binding of supplied arguments to a parameter list: what
\* inspect.Signature.bind does, and what a call does before the body runs.
\* `arguments` holds the supplied parameters only (defaults are not applied).
bind(params, args, kwargs) ==
    LET n == Len(args)
        rest == IF n <= Len(params) THEN (n + 1)..Len(params) ELSE {}
        ok == /\ n <= Len(params)
              /\ \A k \in DOMAIN kwargs : \E i \in rest : params[i].name = k
              /\ \A i \in rest : params[i].name \in DOMAIN kwargs \/ params[i].dflt
        positional == {params[i].name : i \in 1..n}
    IN  IF ok
        THEN [ok |-> TRUE,
              arguments |-> [p \in positional \cup DOMAIN kwargs |->
                                IF p \in DOMAIN kwargs THEN kwargs[p]
                                ELSE args[CHOOSE i \in 1..n : params[i].name = p]]]
        ELSE [ok |-> FALSE, arguments |-> EmptyMap]

\* what calling a callable gives: a returned value or a raised exception
Returns(v) == [kind |-> "return", value |-> v, excType |-> "", message |-> ""]
Raises(kind, text) == [kind |-> "raise", value |-> PyNone, excType |-> kind, message |-> text]
NotCalled == [kind |-> "none", value |-> PyNone, excType |-> "", message |-> ""]

\* parameter list of each callable as getattr hands it out (a classmethod
\* comes bound, so its cls is no longer a parameter)
Signature(obj) ==
    CASE obj = "math_ns.add" -> <<Param("a", FALSE), Param("b", FALSE)>>
      [] obj = "math_ns.Group.action" -> <<Param("self", FALSE), Param("x", FALSE)>>
      [] obj = "math_ns.Group.make" -> <<Param("x", FALSE)>>
      [] obj = "math_ns.Group.reset" -> <<Param("x", TRUE)>>
      [] OTHER -> <<>>

Body(obj, a) ==
    CASE obj = "math_ns.add" ->
            IF a["a"].t = "int" /\ a["b"].t = "int"
            THEN Returns(PyInt(a["a"].n + a["b"].n))
            ELSE Raises("TypeError", "unsupported operand type(s) for +")
      [] obj = "math_ns.boom" -> Raises("ValueError", "bad value")
      [] obj = "math_ns.quit" -> Raises("SystemExit", "bye")
      [] obj = "math_ns.mkset" -> Returns(PyObj)
      [] obj = "math_ns.blob" -> Returns(PyStr(1024 * 4 + 1))
      [] obj = "math_ns.edge" -> Returns(PyStr(3000))
      [] obj = "math_ns.over" -> Returns(PyStr(3001))
      [] obj = "math_ns.Group" -> Returns(PyObj)
      [] obj = "math_ns.Group.action" -> Returns(a["x"])
      [] obj = "math_ns.Group.make" -> Returns(a["x"])
      [] obj = "math_ns.Group.reset" -> Returns(PyNone)
      [] OTHER -> Raises("TypeError", "object is not callable")

\* invoke(*args, **kwargs)
Invoke(obj, args, kwargs) ==
    LET b == bind(Signature(obj), args, kwargs)
    IN  IF b.ok THEN Body(obj, b.arguments)
        ELSE Raises("TypeError", "missing or unexpected argument")

(***************************************************************************)
(* Envelopes.  A document is a JSON object: `keys` are the keys it holds   *)
(* with a value other than null, so dict.get gives None for the others.    *)
(***************************************************************************)
CallEnvelope(clazz, method, args, kwargs) ==
    [keys |-> {"clazz", "method", "args", "kwargs"},
     clazz |-> clazz, method |-> method, args |-> args, kwargs |-> kwargs]

ResultEnvelope(status, message, excType, result) ==
    [keys |-> {"status", "message", "excType", "result"},
     status |-> status, message |-> message, excType |-> excType, result |-> result]

\* common_pb2.CommonRequest / CommonResponse
CommonRequest(request, serialize, request_id) ==
    [request |-> request, serialize |-> serialize, request_id |-> request_id]

CommonResponse(response, status) == [response |-> response, status |-> status]

(***************************************************************************)
(* CommonService.handle                                                    *)
(***************************************************************************)
\* what a run of handle amounts to: the response returned or the exception
\* that leaves it, whether the callable ran and what the callable did
Returned(response, invoked, callee) ==
    [kind |-> "response", response |-> response, excType |-> "", message |-> "",
     invoked |-> invoked, callee |-> callee]

Raised(excType, message, invoked, callee) ==
    [kind |-> "raise", response |-> CommonResponse(NoBytes, 0), excType |-> excType,
     message |-> message, invoked |-> invoked, callee |-> callee]

\* CommonService.clazz_handler, or the function set_clazz_handler installed
ApplyHandler(handler, clazz) ==
    CASE handler = "default" -> [ok |-> TRUE, value |-> clazz, excType |-> "", message |-> ""]
      [] handler = "registry" ->
            IF clazz = "calc_api"
            THEN [ok |-> TRUE, value |-> "math_ns", excType |-> "", message |-> ""]
            ELSE [ok |-> FALSE, value |-> "", excType |-> "KeyError", message |-> "unit"]
      [] handler = "units" ->
            IF clazz = "calc_api"
            THEN [ok |-> TRUE, value |-> ModuleObject("math_ns"), excType |-> "",
                  message |-> ""]
            ELSE [ok |-> FALSE, value |-> "", excType |-> "KeyError", message |-> "unit"]

\* the response dict of lines 76-81
InitialResponse == ResultEnvelope(0, "", "", PyStr(0))

\* the except clause of line 91
Catches(kind) == IsException(kind)

\* the exception's kind is not recorded
OnExceptionNoKind(response, e) ==
    [response EXCEPT !.status = -1, !.message = e.message]

\* the handler body of lines 92-96
OnException(response, e) ==
    [response EXCEPT !.status = -1, !.message = e.message, !.excType = e.excType]

\* the return value is dropped
OnReturnDropped(response, value) == response

\* line 90 when invoke returns
OnReturn(response, value) == [response EXCEPT !.result = value]

\* the message's status field is left at its default
BuildResponseStatusUnset(response, invoked, callee) ==
    LET dumped == json_dumps(response)
    IN  IF dumped.ok
        THEN Returned(CommonResponse(encode_utf8(dumped.text), 0), invoked, callee)
        ELSE Raised(dumped.excType, dumped.message, invoked, callee)

\* lines 98-101
BuildResponse(response, invoked, callee) ==
    LET dumped == json_dumps(response)
    IN  IF dumped.ok
        THEN Returned(CommonResponse(encode_utf8(dumped.text), response.status),
                      invoked, callee)
        ELSE Raised(dumped.excType, dumped.message, invoked, callee)

\* absent args or kwargs reach the call as None
InvokeAndRespondNoDefault(grpc_request, invoke) ==
    LET callee == IF {"args", "kwargs"} \subseteq grpc_request.keys
                  THEN Invoke(invoke, grpc_request.args, grpc_request.kwargs)
                  ELSE Raises("TypeError", "argument after * must be an iterable")
    IN  IF callee.kind = "return"
        THEN BuildResponse(OnReturn(InitialResponse, callee.value), 1, callee)
        ELSE IF Catches(callee.excType)
        THEN BuildResponse(OnException(InitialResponse, callee), 1, callee)
        ELSE Raised(callee.excType, callee.message, 1, callee)

\* lines 87-101, once clazz and method have resolved to `invoke`
InvokeAndRespond(grpc_request, invoke) ==
    LET args == IF "args" \in grpc_request.keys /\ grpc_request.args # <<>>
                THEN grpc_request.args ELSE <<>>
        kwargs == IF "kwargs" \in grpc_request.keys /\ DOMAIN grpc_request.kwargs # {}
                  THEN grpc_request.kwargs ELSE EmptyMap
        callee == Invoke(invoke, args, kwargs)
    IN  IF callee.kind = "return"
        THEN BuildResponse(OnReturn(InitialResponse, callee.value), 1, callee)
        ELSE IF Catches(callee.excType)
        THEN BuildResponse(OnException(InitialResponse, callee), 1, callee)
        ELSE Raised(callee.excType, callee.message, 1, callee)

\* lines 82-86
Resolve(grpc_request, handler) ==
    LET clazz == IF "clazz" \in grpc_request.keys THEN grpc_request.clazz ELSE NoneName
        _clazz == ApplyHandler(handler, clazz)
        module == import_module(_clazz.value)
    IN  IF ~_clazz.ok THEN [ok |-> FALSE, obj |-> "", excType |-> _clazz.excType,
                            message |-> _clazz.message]
        ELSE IF ~module.ok THEN module
        ELSE IF "method" \notin grpc_request.keys
        THEN [ok |-> FALSE, obj |-> "", excType |-> "AttributeError",
              message |-> "'NoneType' object has no attribute 'split'"]
        ELSE reduce_getattr(module.obj, split(grpc_request.method))

\* a request whose serialize tag is not 3 (json) is refused
handleJsonOnly(request, handler) ==
    LET request_str == decode_utf8(request.request)
        grpc_request == json_loads(request_str.text)
        invoke == Resolve(grpc_request.doc, handler)
    IN  IF request.serialize # 3
        THEN Raised("ValueError", "unsupported serialize", 0, NotCalled)
        ELSE IF ~request_str.ok
        THEN Raised(request_str.excType, request_str.message, 0, NotCalled)
        ELSE IF ~grpc_request.ok
        THEN Raised(grpc_request.excType, grpc_request.message, 0, NotCalled)
        ELSE IF ~invoke.ok
        THEN Raised(invoke.excType, invoke.message, 0, NotCalled)
        ELSE InvokeAndRespond(grpc_request.doc, invoke.obj)

\* lines 72-101
handle(request, handler) ==
    LET request_str == decode_utf8(request.request)
        grpc_request == json_loads(request_str.text)
        invoke == Resolve(grpc_request.doc, handler)
    IN  IF ~request_str.ok
        THEN Raised(request_str.excType, request_str.message, 0, NotCalled)
        ELSE IF ~grpc_request.ok
        THEN Raised(grpc_request.excType, grpc_request.message, 0, NotCalled)
        ELSE IF ~invoke.ok
        THEN Raised(invoke.excType, invoke.message, 0, NotCalled)
        ELSE InvokeAndRespond(grpc_request.doc, invoke.obj)

(***************************************************************************)
(* rpc_log, the decorator around handle                                    *)
(***************************************************************************)
\* length of json.dumps of one value
JsonLen(v) == CASE v.t = "str" -> v.n + 2
                [] v.t = "none" -> 4
                [] v.t = "int" /\ v.n < 0 -> 2
                [] OTHER -> 1

\* length of the result envelope's JSON text (line 99)
EnvelopeLen(d) ==
    54 + JsonLen(PyInt(d.status)) + Len(d.message) + Len(d.excType) + JsonLen(d.result)

\* len(json_data), json_data = MessageToJson(response): the payload in
\* base64 between the message's braces, and the status field when not 0
JsonDataLen(response) ==
    20 + 4 * ((EnvelopeLen(response.response.text.doc) + 2) \div 3)
       + (IF response.status # 0 THEN 16 ELSE 0)

NoRecord == [emitted |-> FALSE]

\* a serialized result of exactly 1024 * 4 characters is cut as well
rpc_logFromThreshold(request, h) ==
    IF h.kind # "response" THEN NoRecord
    ELSE LET n == JsonDataLen(h.response)
         IN  IF n >= 1024 * 4
             THEN [emitted |-> TRUE, request_id |-> request.request_id,
                   function |-> "grpclib.handle", has_status |-> FALSE,
                   preview_len |-> 1024 * 4, marker |-> "..."]
             ELSE [emitted |-> TRUE, request_id |-> request.request_id,
                   function |-> "grpclib.handle", has_status |-> TRUE,
                   preview_len |-> n, marker |-> ""]

\* lines 26-52: the record logged once func has returned; nothing is logged
\* when func raises (line 28)
rpc_log(request, h) ==
    IF h.kind # "response" THEN NoRecord
    ELSE LET n == JsonDataLen(h.response)
         IN  IF n > 1024 * 4
             THEN [emitted |-> TRUE, request_id |-> request.request_id,
                   function |-> "grpclib.handle", has_status |-> FALSE,
                   preview_len |-> 1024 * 4, marker |-> "..."]
             ELSE [emitted |-> TRUE, request_id |-> request.request_id,
                   function |-> "grpclib.handle", has_status |-> TRUE,
                   preview_len |-> n, marker |-> ""]

\* lines 28 and 52: what the wrapper hands back is what func returned, and
\* what func raises leaves the wrapper
rpc_log_return(h) == h

(***************************************************************************)
(* Server, GrpcClient                                                      *)
(***************************************************************************)
\* str(port)
str(port) == CASE port = 6565 -> "6565" [] port = 6566 -> "6566"

\* class Server
Server(server, host, port) ==
    [server |-> server, host |-> host, port |-> port, addr |-> host \o ":" \o str(port)]

\* a name once registered keeps its first stub
RECURSIVE loadFirstWins(_, _)
loadFirstWins(m, servers) ==
    IF servers = <<>> THEN m
    ELSE LET server == Head(servers)
             m1 == [n \in DOMAIN m \cup {server.server} |->
                       IF n \in DOMAIN m THEN m[n] ELSE server.addr]
         IN  loadFirstWins(m1, Tail(servers))

\* GrpcClient.load: one stub per descriptor, keyed by its server name
RECURSIVE load(_, _)
load(m, servers) ==
    IF servers = <<>> THEN m
    ELSE LET server == Head(servers)
             m1 == [n \in DOMAIN m \cup {server.server} |->
                       IF n = server.server THEN server.addr ELSE m[n]]
         IN  load(m1, Tail(servers))

NoStub == "None"

\* GrpcClient.connect: self.stubs.get(server)
connect(m, server) == IF server \in DOMAIN m THEN m[server] ELSE NoStub

(***************************************************************************)
(* GrpcException and the grpc_service wrapper                              *)
(***************************************************************************)
NoOutcome == [kind |-> "none", value |-> PyNone, error |-> "", exc_type |-> "", message |-> ""]

Return(v) == [kind |-> "return", value |-> v, error |-> "", exc_type |-> "", message |-> ""]

\* an exception other than GrpcException leaving the wrapper
Raise(error, message) ==
    [kind |-> "raise", value |-> PyNone, error |-> error, exc_type |-> "", message |-> message]

\* class GrpcException
GrpcException(exc_type, message) ==
    [kind |-> "raise", value |-> PyNone, error |-> "GrpcException",
     exc_type |-> exc_type, message |-> message]

HasParam(params, name) == \E i \in DOMAIN params : params[i].name = name

\* lines 175-177: the cls parameter is taken out of the bound arguments
StripCls(params, arguments) ==
    IF ~HasParam(params, "cls") THEN [ok |-> TRUE, arguments |-> arguments]
    ELSE IF "cls" \notin DOMAIN arguments THEN [ok |-> FALSE, arguments |-> arguments]
    ELSE [ok |-> TRUE, arguments |-> [p \in DOMAIN arguments \ {"cls"} |-> arguments[p]]]

\* the bound arguments are left out of the envelope
BuildRequestNoKwargs(func, arguments) ==
    [keys |-> {"clazz", "method", "args", "kwargs"}, clazz |-> func.module,
     method |-> func.qualname, args |-> <<>>, kwargs |-> EmptyMap]

\* lines 178-183
BuildRequest(func, arguments) ==
    CallEnvelope(func.module, func.qualname, <<>>, arguments)

\* lines 173-184: bind, strip, build and serialize; the request or the
\* exception that leaves the wrapper
Prepare(func, args, kwargs) ==
    LET b == bind(func.params, args, kwargs)
        stripped == StripCls(func.params, b.arguments)
        request == BuildRequest(func, stripped.arguments)
        request_json == json_dumps(request)
    IN  IF ~b.ok THEN [ok |-> FALSE, request |-> NoDoc, bytes |-> NoBytes,
                       raised |-> Raise("TypeError", "missing or unexpected argument")]
        ELSE IF ~stripped.ok THEN [ok |-> FALSE, request |-> NoDoc, bytes |-> NoBytes,
                                   raised |-> Raise("KeyError", "cls")]
        ELSE IF ~request_json.ok THEN [ok |-> FALSE, request |-> request, bytes |-> NoBytes,
                                       raised |-> Raise(request_json.excType,
                                                        request_json.message)]
        ELSE [ok |-> TRUE, request |-> request, bytes |-> encode_utf8(request_json.text),
              raised |-> NoOutcome]

\* every status other than 0 is taken for a handled application error
InterpretElseGrpc(response) ==
    LET d == json_loads(decode_utf8(response.response).text).doc
    IN  IF "status" \in d.keys /\ d.status = 0
        THEN Return(IF "result" \in d.keys THEN d.result ELSE PyNone)
        ELSE GrpcException(IF "excType" \in d.keys THEN d.excType ELSE NoneName,
                           IF "message" \in d.keys THEN d.message ELSE NoneName)

\* lines 192-198
Interpret(response) ==
    LET text == decode_utf8(response.response)
        response_json == json_loads(text.text)
        d == response_json.doc
    IN  IF ~text.ok THEN Raise(text.excType, text.message)
        ELSE IF ~response_json.ok THEN Raise(response_json.excType, response_json.message)
        ELSE IF "status" \in d.keys /\ d.status = 0
        THEN Return(IF "result" \in d.keys THEN d.result ELSE PyNone)
        ELSE IF "status" \in d.keys /\ d.status = -1
        THEN GrpcException(IF "excType" \in d.keys THEN d.excType ELSE NoneName,
                           IF "message" \in d.keys THEN d.message ELSE NoneName)
        ELSE Raise("Exception", "unknown grpc exception")

(***************************************************************************)
(* The functions declared with @grpc_service and their call sites.         *)
(***************************************************************************)
\* serialize=3 of grpc_service's parameter list
DefaultSerialize == 3

\* grpc_service(server, serialize)(func): what the wrapper keeps of func
Declared(server, module, qualname, params) ==
    [server |-> server, serialize |-> DefaultSerialize, module |-> module,
     qualname |-> qualname, params |-> params]

Funcs ==
    { Declared("calc", "math_ns", <<"add">>, <<Param("a", FALSE), Param("b", FALSE)>>),
      Declared("calc", "math_ns", <<"boom">>, <<>>),
      Declared("calc", "math_ns", <<"quit">>, <<>>),
      Declared("calc", "math_ns", <<"mkset">>, <<>>),
      Declared("calc", "math_ns", <<"blob">>, <<>>),
      Declared("calc", "math_ns", <<"edge">>, <<>>),
      Declared("calc", "math_ns", <<"over">>, <<>>),
      Declared("calc", "math_ns", <<"missing">>, <<>>),
      Declared("calc", "math_ns", <<"Group", Dot, "action">>,
               <<Param("self", FALSE), Param("x", FALSE)>>),
      Declared("calc", "math_ns", <<"Group", Dot, "make">>,
               <<Param("cls", FALSE), Param("x", FALSE)>>),
      Declared("calc", "math_ns", <<"Group", Dot, "reset">>,
               <<Param("cls", TRUE), Param("x", TRUE)>>),
      Declared("calc", "math_ns", <<"Group", Dot, "nope">>, <<>>),
      Declared("calc", "other_ns", <<"add">>, <<Param("a", FALSE), Param("b", FALSE)>>),
      Declared("calc", "calc_api", <<"boom">>, <<>>),
      [Declared("calc", "math_ns", <<"boom">>, <<>>) EXCEPT !.serialize = 1],
      Declared("alt", "math_ns", <<"boom">>, <<>>),
      Declared("ghost", "math_ns", <<"add">>, <<Param("a", FALSE), Param("b", FALSE)>>) }

\* the values a caller passes
Values == {PyInt(2), PyInt(3), PyObj}

\* the ways of calling func: positional values and values by name
CallSites(func) ==
    LET names == {func.params[i].name : i \in DOMAIN func.params}
    IN  { site \in [args : UNION {[1..k -> Values] : k \in 0..MaxArgs},
                    kwargs : UNION {[D -> Values] : D \in SUBSET names}] :
            Len(site.args) + Cardinality(DOMAIN site.kwargs) <= MaxArgs }

\* the descriptors an application registers; "ghost" is in none of them
Descriptors ==
    { Server("calc", "h1", 6565), Server("calc", "h2", 6565), Server("alt", "h2", 6565) }

\* GrpcServer(host, port).address of the process running CommonService
ServerAddress == "h1" \o ":" \o str(6565)

\* payloads a transport client can put in a CommonRequest without the wrapper
RawPayloads ==
    { BadBytes,
      encode_utf8(GarbageText),
      encode_utf8(json_dumps(CallEnvelope("math_ns", <<"add">>,
                                          <<PyInt(2), PyInt(3)>>, EmptyMap)).text),
      encode_utf8(json_dumps([keys |-> {"clazz", "method"}, clazz |-> "math_ns",
                              method |-> <<"boom">>]).text),
      encode_utf8(json_dumps([keys |-> {"clazz", "method"}, clazz |-> "math_ns",
                              method |-> <<"Group", Dot, "reset">>]).text),
      encode_utf8(json_dumps([keys |-> {"clazz", "method", "args"}, clazz |-> "math_ns",
                              method |-> <<"add">>,
                              args |-> <<PyInt(2), PyInt(3)>>]).text),
      encode_utf8(json_dumps([keys |-> {"clazz"}, clazz |-> "math_ns"]).text),
      encode_utf8(json_dumps([keys |-> {"method"}, method |-> <<"add">>]).text),
      encode_utf8(json_dumps(CallEnvelope("math_ns", <<"Group", Dot, Dot, "make">>,
                                          <<>>, EmptyMap)).text),
      encode_utf8(json_dumps(CallEnvelope("math_ns", <<>>, <<>>, EmptyMap)).text) }

\* what a server that is not this CommonService may answer
ForeignEnvelopes ==
    LET full == {ResultEnvelope(s, "remote text", "RemoteKind", PyInt(7)) : s \in {0, -1, 1, 2}}
    IN  full \cup {[d EXCEPT !.keys = {"message", "excType", "result"}] : d \in full}
             \cup {[d EXCEPT !.keys = {"status"}] : d \in full}

TransportError == [kind |-> "error", response |-> CommonResponse(NoBytes, 0)]

Delivered(response) == [kind |-> "response", response |-> response]

ForeignResponses ==
    {Delivered(CommonResponse(encode_utf8(json_dumps(d).text), d.status)) : d \in ForeignEnvelopes}
    \cup {Delivered(CommonResponse(encode_utf8(GarbageText), 0)), TransportError}

(***************************************************************************)
(* The state machine                                                       *)
(***************************************************************************)
NoCall == [kind |-> "none"]
NoReq == [addr |-> NoStub]
NoResp == [kind |-> "none"]
NoSrv == [handled |-> FALSE]
NoPatch == [patched |-> FALSE]

\* a worker thread: `ctl` is where it stands and what it was handed (with
\* the history of its dispatch), `local` the local variables of its call
IdleCtl ==
    [pc |-> "idle", id |-> 0, given |-> NoReq, handler |-> "unread", trace |-> <<>>,
     invoked |-> 0, responses |-> 0, result |-> NoResp]

NoLocal == [bound |-> {}]

IdlePool == [w \in 1..MaxWorkers |-> [ctl |-> IdleCtl, local |-> NoLocal]]

Init ==
    /\ stubs = [n \in {} |-> NoStub]
    /\ clazz_handler = "default"
    /\ pc = "idle"
    /\ call = NoCall
    /\ req = NoReq
    /\ resp = NoResp
    /\ srv = NoSrv
    /\ outcome = NoOutcome
    /\ ncalls = 0
    /\ registered = [n \in {} |-> NoStub]
    /\ installed = "default"
    /\ patch = NoPatch
    /\ pool = IdlePool
    /\ rpc_logger = {}

\* GrpcClient.load(servers)
Load(servers) ==
    /\ stubs' = load(stubs, servers)
    /\ registered' =
          [n \in DOMAIN registered \cup {servers[i].server : i \in DOMAIN servers} |->
              IF \E i \in DOMAIN servers : servers[i].server = n
              THEN servers[CHOOSE i \in DOMAIN servers :
                              /\ servers[i].server = n
                              /\ \A j \in DOMAIN servers : j > i => servers[j].server # n]
              ELSE registered[n]]
    /\ UNCHANGED <<clazz_handler, pc, call, req, resp, srv, outcome, ncalls,
                   installed, patch, pool, rpc_logger>>

\* GrpcServer.set_clazz_handler(func)
SetClazzHandler(func) ==
    /\ clazz_handler' = IF func # "notcallable" THEN func ELSE clazz_handler
    /\ installed' = IF func # "notcallable" THEN func ELSE installed
    /\ UNCHANGED <<stubs, pc, call, req, resp, srv, outcome, ncalls,
                   registered, patch, pool, rpc_logger>>

\* func as the wrapper finds it when called: lines 173 and 179-180 read its
\* signature, __module__ and __qualname__ anew
Current(func) ==
    IF patch.patched /\ patch.func = func
    THEN [func EXCEPT !.module = patch.module, !.qualname = patch.qualname,
                      !.params = patch.params]
    ELSE func

\* the wrapper up to the stub's handle(): lines 173-191
ClientCall(func, site) ==
    /\ pc = "idle"
    /\ ncalls < MaxCalls
    /\ LET prep == Prepare(Current(func), site.args, site.kwargs)
           stub == connect(stubs, func.server)
       IN  /\ call' = [kind |-> "wrapper", func |-> func, args |-> site.args,
                       kwargs |-> site.kwargs, prepared |-> prep.ok,
                       request |-> prep.request, stub |-> stub]
           /\ IF ~prep.ok
              THEN /\ outcome' = prep.raised
                   /\ pc' = "done"
                   /\ UNCHANGED <<req, ncalls>>
              ELSE IF stub = NoStub
              THEN /\ outcome' = Raise("AttributeError",
                                       "'NoneType' object has no attribute 'handle'")
                   /\ pc' = "done"
                   /\ UNCHANGED <<req, ncalls>>
              ELSE /\ req' = [addr |-> stub,
                              message |-> CommonRequest(prep.bytes, func.serialize,
                                                        ncalls + 1)]
                   /\ ncalls' = ncalls + 1
                   /\ pc' = "sent"
                   /\ UNCHANGED outcome
    /\ UNCHANGED <<stubs, clazz_handler, resp, srv>>
    /\ UNCHANGED <<registered, installed, patch, pool, rpc_logger>>

\* a CommonRequest that reaches the service from another client of the transport
RawSend(payload) ==
    /\ pc = "idle"
    /\ ncalls < MaxCalls
    /\ call' = [kind |-> "raw"]
    /\ req' = [addr |-> ServerAddress,
               message |-> CommonRequest(payload, DefaultSerialize, ncalls + 1)]
    /\ ncalls' = ncalls + 1
    /\ pc' = "sent"
    /\ UNCHANGED <<stubs, clazz_handler, resp, srv, outcome>>
    /\ UNCHANGED <<registered, installed, patch, pool, rpc_logger>>

\* CommonService.handle under rpc_log, run by the grpc server for req; an
\* exception that leaves it reaches the client as a transport error
ServerHandle ==
    /\ pc = "sent"
    /\ req.addr = ServerAddress
    /\ LET h == handle(req.message, clazz_handler)
           returned == rpc_log_return(h)
       IN  /\ srv' = [handled |-> TRUE, handler |-> clazz_handler, result |-> h,
                       record |-> rpc_log(req.message, h), returned |-> returned]
           /\ resp' = IF returned.kind = "response" THEN Delivered(returned.response)
                      ELSE TransportError
    /\ pc' = "responded"
    /\ UNCHANGED <<stubs, clazz_handler, call, req, outcome, ncalls>>
    /\ UNCHANGED <<registered, installed, patch, pool, rpc_logger>>

\* the stub's channel points at some other server
ForeignRespond(r) ==
    /\ pc = "sent"
    /\ req.addr # ServerAddress
    /\ resp' = r
    /\ pc' = "responded"
    /\ UNCHANGED <<stubs, clazz_handler, call, req, srv, outcome, ncalls>>
    /\ UNCHANGED <<registered, installed, patch, pool, rpc_logger>>

\* the wrapper from the stub's answer on: lines 185 and 192-198
ClientReturn ==
    /\ pc = "responded"
    /\ outcome' = IF resp.kind = "error" THEN Raise("RpcError", "StatusCode.UNKNOWN")
                  ELSE IF call.kind = "wrapper" THEN Interpret(resp.response)
                  ELSE NoOutcome
    /\ pc' = "done"
    /\ UNCHANGED <<stubs, clazz_handler, call, req, resp, srv, ncalls>>
    /\ UNCHANGED <<registered, installed, patch, pool, rpc_logger>>

\* the caller goes on to its next call
NextCall ==
    /\ pc = "done"
    /\ pc' = "idle"
    /\ call' = NoCall
    /\ req' = NoReq
    /\ resp' = NoResp
    /\ srv' = NoSrv
    /\ outcome' = NoOutcome
    /\ UNCHANGED <<stubs, clazz_handler, ncalls>>
    /\ UNCHANGED <<registered, installed, patch, pool, rpc_logger>>

Next ==
    \/ \E servers \in UNION {[1..k -> Descriptors] : k \in 1..2} : Load(servers)
    \/ \E func \in {"default", "registry", "units", "notcallable"} : SetClazzHandler(func)
    \/ \E func \in Funcs : \E site \in CallSites(func) : ClientCall(func, site)
    \/ \E payload \in RawPayloads : RawSend(payload)
    \/ ServerHandle
    \/ \E r \in ForeignResponses : ForeignRespond(r)
    \/ ClientReturn
    \/ NextCall

Spec == Init /\ [][Next]_vars

(***************************************************************************)
(* The server's thread pool: grpc hands every request to a worker, and the *)
(* workers run handle (under rpc_log) side by side, one statement group at *)
(* a time.  set_clazz_handler may be called meanwhile.                     *)
(***************************************************************************)
\* requests the workers are handed
PoolPayloads ==
    { BadBytes,
      encode_utf8(json_dumps(CallEnvelope("math_ns", <<"add">>,
                                          <<PyInt(2), PyInt(3)>>, EmptyMap)).text),
      encode_utf8(json_dumps([keys |-> {"clazz", "method"}, clazz |-> "math_ns",
                              method |-> <<"boom">>]).text),
      encode_utf8(json_dumps([keys |-> {"clazz", "method"}, clazz |-> "math_ns",
                              method |-> <<"mkset">>]).text),
      encode_utf8(json_dumps([keys |-> {"clazz", "method"}, clazz |-> "calc_api",
                              method |-> <<"quit">>]).text) }

\* each call of a function has local variables of its own
FrameOfFirst(w) == 1

FrameOf(w) == w

Local(w) == pool[FrameOf(w)].local

\* a caught exception sends the dispatch back to line 90
PhaseAfterInvokeRetry(callee) ==
    IF callee.kind = "return" THEN "respond"
    ELSE IF Catches(callee.excType) THEN "invoke" ELSE "raised"

\* where line 90 leaves the dispatch: at the return statement, or outside
\* handle with what the except clause does not catch
PhaseAfterInvoke(callee) ==
    IF callee.kind = "return" \/ Catches(callee.excType) THEN "respond" ELSE "raised"

\* line 73: a worker enters handle with the request of one client
Accept(w, payload) ==
    /\ pool[w].ctl.pc = "idle"
    /\ ncalls < MaxCalls
    /\ LET request == CommonRequest(payload, DefaultSerialize, ncalls + 1)
       IN  pool' = [pool EXCEPT
                ![w].ctl = [IdleCtl EXCEPT !.pc = "decode", !.id = ncalls + 1,
                                           !.given = request, !.trace = <<"Received">>],
                ![FrameOf(w)].local = [bound |-> {"request"}, request |-> request]]
    /\ ncalls' = ncalls + 1
    /\ UNCHANGED <<stubs, clazz_handler, pc, call, req, resp, srv, outcome,
                   registered, installed, patch, rpc_logger>>

\* lines 74-81
Decode(w) ==
    /\ pool[w].ctl.pc = "decode"
    /\ LET request_str == decode_utf8(Local(w).request.request)
           grpc_request == json_loads(request_str.text)
       IN  IF ~request_str.ok \/ ~grpc_request.ok
           THEN LET e == IF ~request_str.ok THEN request_str ELSE grpc_request
                IN  pool' = [pool EXCEPT
                        ![w].ctl.pc = "raised",
                        ![w].ctl.result = Raised(e.excType, e.message, 0, NotCalled)]
           ELSE pool' = [pool EXCEPT
                    ![w].ctl.pc = "resolve",
                    ![w].ctl.trace = Append(@, "Resolving"),
                    ![FrameOf(w)].local =
                        [bound |-> {"request", "grpc_request", "response"},
                         request |-> Local(w).request,
                         grpc_request |-> grpc_request.doc,
                         response |-> InitialResponse]]
    /\ UNCHANGED <<stubs, clazz_handler, pc, call, req, resp, srv, outcome, ncalls,
                   registered, installed, patch, rpc_logger>>

\* lines 82-86, with the resolver installed when line 83 runs
ResolveStep(w) ==
    /\ pool[w].ctl.pc = "resolve"
    /\ LET invoke == Resolve(Local(w).grpc_request, clazz_handler)
       IN  IF ~invoke.ok
           THEN pool' = [pool EXCEPT
                    ![w].ctl.pc = "raised",
                    ![w].ctl.handler = clazz_handler,
                    ![w].ctl.result = Raised(invoke.excType, invoke.message, 0, NotCalled)]
           ELSE pool' = [pool EXCEPT
                    ![w].ctl.pc = "invoke",
                    ![w].ctl.handler = clazz_handler,
                    ![FrameOf(w)].local =
                        [bound |-> {"request", "grpc_request", "response", "invoke"},
                         request |-> Local(w).request,
                         grpc_request |-> Local(w).grpc_request,
                         response |-> Local(w).response,
                         invoke |-> invoke.obj]]
    /\ UNCHANGED <<stubs, clazz_handler, pc, call, req, resp, srv, outcome, ncalls,
                   registered, installed, patch, rpc_logger>>

\* lines 87-96
InvokeStep(w) ==
    /\ pool[w].ctl.pc = "invoke"
    /\ LET grpc_request == Local(w).grpc_request
           args == IF "args" \in grpc_request.keys /\ grpc_request.args # <<>>
                   THEN grpc_request.args ELSE <<>>
           kwargs == IF "kwargs" \in grpc_request.keys /\ DOMAIN grpc_request.kwargs # {}
                     THEN grpc_request.kwargs ELSE EmptyMap
           callee == Invoke(Local(w).invoke, args, kwargs)
           response == IF callee.kind = "return"
                       THEN OnReturn(Local(w).response, callee.value)
                       ELSE IF Catches(callee.excType)
                       THEN OnException(Local(w).response, callee)
                       ELSE Local(w).response
       IN  pool' = [pool EXCEPT
                ![w].ctl.pc = PhaseAfterInvoke(callee),
                ![w].ctl.trace = Append(@, "Invoking"),
                ![w].ctl.invoked = @ + 1,
                ![w].ctl.result = IF PhaseAfterInvoke(callee) = "raised"
                                  THEN Raised(callee.excType, callee.message, 1, callee)
                                  ELSE @,
                ![FrameOf(w)].local =
                    [bound |-> {"request", "grpc_request", "response", "invoke", "callee"},
                     request |-> Local(w).request,
                     grpc_request |-> grpc_request,
                     response |-> response,
                     invoke |-> Local(w).invoke,
                     callee |-> callee]]
    /\ UNCHANGED <<stubs, clazz_handler, pc, call, req, resp, srv, outcome, ncalls,
                   registered, installed, patch, rpc_logger>>

\* lines 98-101: the return statement
Respond(w) ==
    /\ pool[w].ctl.pc = "respond"
    /\ LET h == BuildResponse(Local(w).response, 1, Local(w).callee)
       IN  IF h.kind = "response"
           THEN pool' = [pool EXCEPT
                    ![w].ctl.pc = "log",
                    ![w].ctl.trace = Append(@, IF h.response.status = 0
                                               THEN "Succeeded" ELSE "Failed"),
                    ![w].ctl.responses = @ + 1,
                    ![w].ctl.result = h]
           ELSE pool' = [pool EXCEPT ![w].ctl.pc = "raised", ![w].ctl.result = h]
    /\ UNCHANGED <<stubs, clazz_handler, pc, call, req, resp, srv, outcome, ncalls,
                   registered, installed, patch, rpc_logger>>

\* rpc_log's wrapper once handle has returned: lines 30-52.  `dispatch` and
\* `handler` are history: which dispatch wrote the record, and the resolver
\* that dispatch read
Log(w) ==
    /\ pool[w].ctl.pc = "log"
    /\ rpc_logger' = rpc_logger \cup
            {[record |-> rpc_log(Local(w).request, pool[w].ctl.result),
              response |-> rpc_log_return(pool[w].ctl.result).response,
              dispatch |-> pool[w].ctl.id,
              given |-> pool[w].ctl.given,
              handler |-> pool[w].ctl.handler]}
    /\ pool' = [pool EXCEPT ![w].ctl.pc = "returned"]
    /\ UNCHANGED <<stubs, clazz_handler, pc, call, req, resp, srv, outcome, ncalls,
                   registered, installed, patch>>

\* the worker has answered its client and is free for the next request
Release(w) ==
    /\ pool[w].ctl.pc \in {"returned", "raised"}
    /\ pool' = [pool EXCEPT ![w].ctl = IdleCtl, ![FrameOf(w)].local = NoLocal]
    /\ UNCHANGED <<stubs, clazz_handler, pc, call, req, resp, srv, outcome, ncalls,
                   registered, installed, patch, rpc_logger>>

PoolNext ==
    \/ \E func \in {"default", "registry", "notcallable"} : SetClazzHandler(func)
    \/ \E w \in 1..MaxWorkers : \E payload \in PoolPayloads : Accept(w, payload)
    \/ \E w \in 1..MaxWorkers : Decode(w)
    \/ \E w \in 1..MaxWorkers : ResolveStep(w)
    \/ \E w \in 1..MaxWorkers : InvokeStep(w)
    \/ \E w \in 1..MaxWorkers : Respond(w)
    \/ \E w \in 1..MaxWorkers : Log(w)
    \/ \E w \in 1..MaxWorkers : Release(w)

PoolSpec == Init /\ [][PoolNext]_vars

(***************************************************************************)
(* A program that reassigns attributes of a declared function (reached     *)
(* through the wrapper's __wrapped__) between its calls.                   *)
(***************************************************************************)
\* the declared functions of that program
PatchedFuncs ==
    { Declared("calc", "math_ns", <<"add">>, <<Param("a", FALSE), Param("b", FALSE)>>),
      Declared("calc", "math_ns", <<"boom">>, <<>>) }

\* what it assigns: `attr` is the attribute assigned, of func.__module__,
\* func.__qualname__ and func.__signature__, and the field of that name
\* the value
Reassignments ==
    [attr : {"module"}, module : {"other_ns", "calc_api"}, qualname : {<<>>},
     params : {<<>>}]
    \cup [attr : {"qualname"}, module : {""},
          qualname : {<<"boom">>, <<"Group", Dot, "make">>}, params : {<<>>}]
    \cup [attr : {"params"}, module : {""}, qualname : {<<>>},
          params : {<<Param("x", FALSE)>>}]

\* setattr(func, attr, value), func being the function the wrapper closes over
Reassign(func, r) ==
    /\ pc = "idle"
    /\ IF patch.patched THEN patch.func = func ELSE TRUE
    /\ patch' = LET now == Current(func)
                IN  [patched |-> TRUE, func |-> func,
                     module |-> IF r.attr = "module" THEN r.module ELSE now.module,
                     qualname |-> IF r.attr = "qualname" THEN r.qualname ELSE now.qualname,
                     params |-> IF r.attr = "params" THEN r.params ELSE now.params]
    /\ UNCHANGED <<stubs, clazz_handler, pc, call, req, resp, srv, outcome, ncalls,
                   registered, installed, pool, rpc_logger>>

PatchNext ==
    \/ \E d \in Descriptors : Load(<<d>>)
    \/ \E func \in PatchedFuncs : \E r \in Reassignments : Reassign(func, r)
    \/ \E func \in PatchedFuncs : \E site \in CallSites(func) : ClientCall(func, site)
    \/ ServerHandle
    \/ \E r \in ForeignResponses : ForeignRespond(r)
    \/ ClientReturn
    \/ NextCall

PatchSpec == Init /\ [][PatchNext]_vars

(***************************************************************************)
(* What the claims speak of                                                *)
(***************************************************************************)
\* the dispatcher has run for the request in flight
Handled == srv.handled

\* the request payload decodes to a call envelope
RequestDecodes ==
    /\ decode_utf8(req.message.request).ok
    /\ json_loads(decode_utf8(req.message.request).text).ok

\* the call envelope the request carries
RequestEnvelope == json_loads(decode_utf8(req.message.request).text).doc

\* the result envelope inside the response handle returned
HandleEnvelope == json_loads(decode_utf8(srv.result.response.response).text).doc

\* the callable the request's namespace and method path lead to
Target == Resolve(RequestEnvelope, srv.handler)

\* what that callable does with the envelope's args and kwargs
TargetOutcome ==
    Invoke(Target.obj,
           IF "args" \in RequestEnvelope.keys THEN RequestEnvelope.args ELSE <<>>,
           IF "kwargs" \in RequestEnvelope.keys THEN RequestEnvelope.kwargs ELSE EmptyMap)

\* the call came through a grpc_service wrapper and its request went out
WrapperSent == call.kind = "wrapper" /\ req.addr # NoStub

(***************************************************************************)
(* C1.  As claimed: whatever the resolved callable raises, of any kind,    *)
(* handle returns a response whose envelope has status -1, excType the     *)
(* raised kind's name and message its text.                                *)
(***************************************************************************)
C1_AnyRaiseIsCaptured ==
    (Handled /\ srv.result.invoked = 1 /\ TargetOutcome.kind = "raise") =>
        /\ srv.result.kind = "response"
        /\ HandleEnvelope.status = -1
        /\ HandleEnvelope.excType = TargetOutcome.excType
        /\ HandleEnvelope.message = TargetOutcome.message

(***************************************************************************)
(* C2.  As claimed: when the namespace cannot be loaded or a segment of    *)
(* the method path is missing, handle returns status -1 with the           *)
(* resolution failure's kind and a non-empty message, invoking nothing.    *)
(***************************************************************************)
C2_ResolutionFailureIsCaptured ==
    (Handled /\ RequestDecodes /\ ~Target.ok) =>
        /\ srv.result.invoked = 0
        /\ srv.result.kind = "response"
        /\ HandleEnvelope.status = -1
        /\ HandleEnvelope.excType = Target.excType
        /\ HandleEnvelope.message # ""

(***************************************************************************)
(* C3.  As claimed: a payload that is not UTF-8 or not JSON gets a result  *)
(* envelope with a status other than 0 and -1, nothing is resolved or      *)
(* invoked, and no exception leaves handle.                                *)
(***************************************************************************)
C3_MalformedGetsAnomalyStatus ==
    (Handled /\ ~RequestDecodes) =>
        /\ srv.result.invoked = 0
        /\ srv.result.kind = "response"
        /\ HandleEnvelope.status \notin {0, -1}

(***************************************************************************)
(* C4.  When namespace and method resolve to a callable that returns a     *)
(* representable value v for the envelope's args and kwargs, handle        *)
(* returns an envelope with status 0 and result v.                         *)
(***************************************************************************)
C4_SuccessfulDispatch ==
    (Handled /\ RequestDecodes /\ Target.ok /\ TargetOutcome.kind = "return"
        /\ Representable(TargetOutcome.value)) =>
        /\ srv.result.kind = "response"
        /\ srv.result.invoked = 1
        /\ HandleEnvelope.status = 0
        /\ HandleEnvelope.result = TargetOutcome.value

\* add with kwargs {a: 2, b: 3} gave status 0, result 5
C4_Witness ==
    /\ Handled
    /\ RequestDecodes
    /\ RequestEnvelope.keys = {"clazz", "method", "args", "kwargs"}
    /\ RequestEnvelope.clazz = "math_ns"
    /\ RequestEnvelope.method = <<"add">>
    /\ RequestEnvelope.args = <<>>
    /\ DOMAIN RequestEnvelope.kwargs = {"a", "b"}
    /\ RequestEnvelope.kwargs["a"] = PyInt(2)
    /\ RequestEnvelope.kwargs["b"] = PyInt(3)
    /\ srv.result.kind = "response"
    /\ HandleEnvelope.status = 0
    /\ HandleEnvelope.result = PyInt(5)

(***************************************************************************)
(* C5.  As claimed: when the callable returns a value the envelope         *)
(* encoding cannot represent, handle returns status -1 with the encoding   *)
(* failure's kind and message; the failure does not leave handle.          *)
(***************************************************************************)
C5_UnrepresentableIsCaptured ==
    (Handled /\ RequestDecodes /\ Target.ok /\ TargetOutcome.kind = "return"
        /\ ~Representable(TargetOutcome.value)) =>
        /\ srv.result.kind = "response"
        /\ HandleEnvelope.status = -1
        /\ HandleEnvelope.excType = "TypeError"
        /\ HandleEnvelope.message # ""

(***************************************************************************)
(* C6.  The wrapper maps a decoded result envelope to one outcome by its   *)
(* status alone: 0 returns the envelope's result; -1 raises GrpcException  *)
(* with the envelope's excType and message unchanged; any other status,    *)
(* an absent one included, raises a generic error, not a GrpcException.    *)
(***************************************************************************)
\* the result envelope the wrapper decoded
ResponseDecodes ==
    /\ resp.kind = "response"
    /\ decode_utf8(resp.response.response).ok
    /\ json_loads(decode_utf8(resp.response.response).text).ok

ResponseEnvelope == json_loads(decode_utf8(resp.response.response).text).doc

\* dict.get on the result envelope
EnvelopeGet(d, key, absent) == IF key \in d.keys THEN d[key] ELSE absent

C6_OutcomeByStatus ==
    (pc = "done" /\ WrapperSent /\ ResponseDecodes) =>
        LET d == ResponseEnvelope
        IN  IF "status" \in d.keys /\ d.status = 0
            THEN /\ outcome.kind = "return"
                 /\ outcome.value = EnvelopeGet(d, "result", PyNone)
            ELSE IF "status" \in d.keys /\ d.status = -1
            THEN /\ outcome.kind = "raise"
                 /\ outcome.error = "GrpcException"
                 /\ outcome.exc_type = EnvelopeGet(d, "excType", NoneName)
                 /\ outcome.message = EnvelopeGet(d, "message", NoneName)
            ELSE /\ outcome.kind = "raise"
                 /\ outcome.error = "Exception"
                 /\ outcome.error # "GrpcException"

\* an envelope without status made the wrapper raise the generic error
C6_Witness ==
    /\ pc = "done"
    /\ WrapperSent
    /\ ResponseDecodes
    /\ "status" \notin ResponseEnvelope.keys
    /\ "excType" \in ResponseEnvelope.keys
    /\ outcome.kind = "raise"
    /\ outcome.error = "Exception"

(***************************************************************************)
(* C7.  As claimed: end to end, when the resolved callable raises kind K   *)
(* with text M the caller observes GrpcException with exc_type K and       *)
(* message M and nothing else; when it returns v the caller receives v.    *)
(***************************************************************************)
C7_EndToEnd ==
    (pc = "done" /\ WrapperSent /\ Handled /\ srv.result.invoked = 1) =>
        IF TargetOutcome.kind = "raise"
        THEN outcome = GrpcException(TargetOutcome.excType, TargetOutcome.message)
        ELSE outcome = Return(TargetOutcome.value)

(***************************************************************************)
(* C8.  As claimed: calling a wrapper whose server name was never          *)
(* registered fails with a configuration error that names the              *)
(* misconfiguration, and no transport request is sent.                     *)
(***************************************************************************)
C8_UnregisteredIsConfigurationError ==
    (pc = "done" /\ call.kind = "wrapper" /\ call.prepared /\ call.stub = NoStub) =>
        /\ req = NoReq
        /\ outcome.kind = "raise"
        /\ outcome.error = "ConfigurationError"

(***************************************************************************)
(* C9.  As claimed: the envelope sent has args empty and kwargs equal to   *)
(* the mapping from every bound parameter name of the declared function    *)
(* to the value supplied at the call site.                                 *)
(***************************************************************************)
\* the call site's arguments bound to the declared parameters
Bound == bind(call.func.params, call.args, call.kwargs).arguments

C9_AllBoundParametersSent ==
    WrapperSent =>
        /\ RequestEnvelope.args = <<>>
        /\ RequestEnvelope.kwargs = Bound

\* C9, amended: the envelope sent has args empty and kwargs equal to the
\* mapping from every bound parameter name other than cls to the value
\* supplied at the call site, whether it was passed positionally or by name.
C9_BoundParametersButClsSent ==
    WrapperSent =>
        /\ RequestEnvelope.args = <<>>
        /\ DOMAIN RequestEnvelope.kwargs = DOMAIN Bound \ {"cls"}
        /\ \A p \in DOMAIN Bound \ {"cls"} : RequestEnvelope.kwargs[p] = Bound[p]

\* add was called with one value by position and one by name, and both
\* went out by name
C9_Witness ==
    /\ WrapperSent
    /\ call.func.qualname = <<"add">>
    /\ call.args = <<PyInt(2)>>
    /\ DOMAIN call.kwargs = {"b"}
    /\ call.kwargs["b"] = PyInt(3)
    /\ RequestEnvelope.args = <<>>
    /\ DOMAIN RequestEnvelope.kwargs = {"a", "b"}
    /\ RequestEnvelope.kwargs["a"] = PyInt(2)
    /\ RequestEnvelope.kwargs["b"] = PyInt(3)

(***************************************************************************)
(* C10.  As claimed: when the declared function's first parameter is self  *)
(* or cls, the envelope's kwargs never holds that parameter, and stripping *)
(* it never makes the call fail, also when it got no call-site value.      *)
(***************************************************************************)
C10_ReceiverStripped ==
    (call.kind = "wrapper" /\ call.func.params # <<>>
        /\ call.func.params[1].name \in {"self", "cls"}) =>
        /\ WrapperSent => call.func.params[1].name \notin DOMAIN RequestEnvelope.kwargs
        /\ outcome # Raise("KeyError", "cls")

(***************************************************************************)
(* C11.  After any sequence of load registrations every server name maps   *)
(* to one connection handle, the one of the last registration for that     *)
(* name (registering the same descriptor again leaves the name at the same *)
(* address); connect(name) returns that handle, returns absent for a name  *)
(* never registered, and never modifies the mapping.                       *)
(***************************************************************************)
ServerNames == {"calc", "alt", "ghost"}

C11_LastRegistrationWins ==
    /\ [](/\ DOMAIN stubs = DOMAIN registered
          /\ \A n \in ServerNames :
                connect(stubs, n) = IF n \in DOMAIN registered
                                    THEN registered[n].host \o ":" \o str(registered[n].port)
                                    ELSE NoStub)
    /\ [][(call' # call /\ call'.kind = "wrapper") =>
             /\ stubs' = stubs
             /\ call'.stub = connect(stubs, call'.func.server)]_vars

\* the last registration of calc names h2 and a wrapper call got the h2 stub
\* from connect, while alt, not registered so far, reads as absent
C11_Witness ==
    /\ call.kind = "wrapper"
    /\ call.func.server = "calc"
    /\ call.stub = "h2:6565"
    /\ "calc" \in DOMAIN registered
    /\ registered["calc"].host = "h2"
    /\ connect(stubs, "alt") = NoStub

(***************************************************************************)
(* C12.  As claimed: after set_clazz_handler(f) with a callable f every    *)
(* dispatch takes its resolvable unit from f applied to the namespace      *)
(* instead of loading by name, so that a registry of units fully replaces  *)
(* loading by the caller-supplied name.                                    *)
(***************************************************************************)
\* the namespace of the request, as dict.get reads it
RequestNamespace ==
    IF "clazz" \in RequestEnvelope.keys THEN RequestEnvelope.clazz ELSE NoneName

\* the unit a module object is
UnitOf(v) == CHOOSE name \in Modules : v = ModuleObject(name)

\* args and kwargs of the request, empty when the envelope has none
RequestArgs == IF "args" \in RequestEnvelope.keys THEN RequestEnvelope.args ELSE <<>>
RequestKwargs ==
    IF "kwargs" \in RequestEnvelope.keys THEN RequestEnvelope.kwargs ELSE EmptyMap

C12_HandlerSuppliesTheUnit ==
    (Handled /\ RequestDecodes /\ srv.handler # "default"
        /\ "method" \in RequestEnvelope.keys
        /\ ApplyHandler(srv.handler, RequestNamespace).ok
        /\ IsModuleObject(ApplyHandler(srv.handler, RequestNamespace).value)) =>
        LET unit == UnitOf(ApplyHandler(srv.handler, RequestNamespace).value)
            target == reduce_getattr(unit, split(RequestEnvelope.method))
        IN  target.ok =>
                /\ srv.result.invoked = 1
                /\ srv.result.callee = Invoke(target.obj, RequestArgs, RequestKwargs)

(***************************************************************************)
(* C13.  For every dispatch under rpc_log: a serialized result longer than *)
(* 4096 is logged as a preview of at most 4096 of it followed by a         *)
(* truncation marker, any other is logged in full, and in both cases the   *)
(* response handed back is the one handle returned, whole.                 *)
(***************************************************************************)
C13_PreviewAndResponse ==
    (Handled /\ srv.result.kind = "response") =>
        LET n == JsonDataLen(srv.result.response)
        IN  /\ srv.record.emitted
            /\ IF n > 4096
               THEN /\ srv.record.preview_len <= 4096
                    /\ srv.record.preview_len < n
                    /\ srv.record.marker # ""
               ELSE /\ srv.record.preview_len = n
                    /\ srv.record.marker = ""
            /\ srv.returned = srv.result
            /\ resp = Delivered(srv.result.response)
            /\ JsonDataLen(resp.response) = n

\* math_ns.over returned a string that serializes to 4100 characters, four
\* more than the limit: the record holds 4096 of them and the marker, the
\* caller the whole payload
C13_Witness ==
    /\ Handled
    /\ srv.result.kind = "response"
    /\ srv.result.callee = Returns(PyStr(3001))
    /\ JsonDataLen(srv.result.response) = 4100
    /\ srv.record.emitted
    /\ srv.record.preview_len = 4096
    /\ srv.record.marker = "..."
    /\ HandleEnvelope.result = PyStr(3001)
    /\ ResponseEnvelope.result = PyStr(3001)

(***************************************************************************)
(* C14.  However the dispatches of the pool's workers interleave, each     *)
(* one's response (or the exception that leaves handle) is what handle     *)
(* gives for its own request alone, and the correlation id of each log     *)
(* record is the request_id of the request whose response it logs.         *)
(***************************************************************************)
\* handle run alone on the request the worker was handed, with the resolver
\* the worker read (none is read when the payload does not decode)
Alone(given, handler) == handle(given, IF handler = "unread" THEN "default" ELSE handler)

C14_DispatchesIndependent ==
    /\ \A w \in 1..MaxWorkers :
          pool[w].ctl.pc \in {"log", "returned", "raised"} =>
              pool[w].ctl.result = Alone(pool[w].ctl.given, pool[w].ctl.handler)
    /\ \A r \in rpc_logger :
          /\ r.record.emitted
          /\ r.record.request_id = r.given.request_id
          /\ r.given.request_id = r.dispatch
          /\ r.response = Alone(r.given, r.handler).response

\* worker 1 has answered and logged the sum for request 1 while worker 2,
\* in the middle of request 2 (boom), stands at its return statement
C14_Witness ==
    /\ pool[1].ctl.pc = "returned"
    /\ pool[1].ctl.id = 1
    /\ pool[2].ctl.pc = "respond"
    /\ pool[2].ctl.id = 2
    /\ pool[2].local.response.excType = "ValueError"
    /\ pool[1].local.response.result = PyInt(5)
    /\ \E r \in rpc_logger : r.dispatch = 1 /\ r.record.request_id = 1
    /\ Cardinality(rpc_logger) = 1

(***************************************************************************)
(* C15.  As claimed: the namespace and method path a wrapper sends are     *)
(* those its function had when the wrapper was created, in every later     *)
(* call, whatever is assigned to the function's __module__, __qualname__   *)
(* or signature in between.                                                *)
(***************************************************************************)
C15_MappingFixedAtCreation ==
    WrapperSent =>
        /\ RequestEnvelope.clazz = call.func.module
        /\ RequestEnvelope.method = call.func.qualname

(***************************************************************************)
(* C16.  Every result envelope handle returns for a decodable request has  *)
(* status 0 or -1 and is discriminated by it: with status 0 message and    *)
(* excType are empty; with status -1 excType is not empty and result holds *)
(* no return value of the callable.                                        *)
(***************************************************************************)
C16_DiscriminatedByStatus ==
    (Handled /\ RequestDecodes /\ srv.result.kind = "response") =>
        LET d == HandleEnvelope
        IN  /\ d.keys = {"status", "message", "excType", "result"}
            /\ d.status \in {0, -1}
            /\ d.status = 0 => d.message = "" /\ d.excType = ""
            /\ d.status = -1 =>
                  /\ d.excType # ""
                  /\ d.result = InitialResponse.result
                  /\ srv.result.callee.kind = "raise"

\* math_ns.boom raised ValueError: status -1, the kind and the text, and an
\* empty result
C16_Witness ==
    /\ Handled
    /\ RequestDecodes
    /\ srv.result.kind = "response"
    /\ HandleEnvelope.status = -1
    /\ HandleEnvelope.excType = "ValueError"
    /\ HandleEnvelope.message = "bad value"
    /\ HandleEnvelope.result = PyStr(0)
    /\ srv.result.callee = Raises("ValueError", "bad value")

(***************************************************************************)
(* C17.  Each dispatch goes through Received, Resolving, Invoking and then *)
(* Succeeded or Failed, in that order: the callable is invoked only once   *)
(* namespace and method path have resolved, at most once per request, and  *)
(* a request that reaches Succeeded or Failed has exactly one response.    *)
(* A dispatch that an exception takes out of handle stops where it is and  *)
(* reaches neither.                                                        *)
(***************************************************************************)
PhaseOrder == <<"Received", "Resolving", "Invoking">>

Terminal(trace) == Len(trace) = 4

C17_PhasesInOrder ==
    \A w \in 1..MaxWorkers :
        LET c == pool[w].ctl
        IN  /\ Len(c.trace) <= 4
            /\ \A i \in 1..Len(c.trace) :
                  IF i <= 3 THEN c.trace[i] = PhaseOrder[i]
                  ELSE c.trace[i] \in {"Succeeded", "Failed"}
            /\ c.invoked \in {0, 1}
            /\ c.invoked = 1 <=> Len(c.trace) >= 3
            /\ c.invoked = 1 =>
                  /\ c.handler # "unread"
                  /\ Resolve(json_loads(decode_utf8(c.given.request).text).doc,
                             c.handler).ok
            /\ c.responses = IF Terminal(c.trace) THEN 1 ELSE 0
            /\ Terminal(c.trace) <=> c.pc \in {"log", "returned"}
            /\ Terminal(c.trace) =>
                  /\ c.result.kind = "response"
                  /\ c.trace[4] = IF c.result.response.status = 0
                                  THEN "Succeeded" ELSE "Failed"
            /\ c.pc = "raised" => c.result.kind = "raise" /\ c.responses = 0

\* worker 1 went all the way to Failed with one invocation and one response,
\* worker 2 left handle while resolving, with neither
C17_Witness ==
    /\ pool[1].ctl.trace = <<"Received", "Resolving", "Invoking", "Failed">>
    /\ pool[1].ctl.invoked = 1
    /\ pool[1].ctl.responses = 1
    /\ pool[2].ctl.pc = "raised"
    /\ pool[2].ctl.trace = <<"Received", "Resolving">>
    /\ pool[2].ctl.invoked = 0
    /\ pool[2].ctl.responses = 0

(***************************************************************************)
(* C18.  A decoded call envelope without args or without kwargs (absent or *)
(* null) has its callable invoked with an empty positional sequence,       *)
(* respectively an empty keyword mapping, and handle gives what it gives   *)
(* for the same envelope with the missing ones written out as empty.       *)
(***************************************************************************)
\* the envelope with args and kwargs written out
Explicit(d) ==
    [keys |-> d.keys \cup {"args", "kwargs"},
     args |-> IF "args" \in d.keys THEN d.args ELSE <<>>,
     kwargs |-> IF "kwargs" \in d.keys THEN d.kwargs ELSE EmptyMap] @@ d

C18_AbsentArgumentsAreEmpty ==
    (Handled /\ RequestDecodes /\ ~({"args", "kwargs"} \subseteq RequestEnvelope.keys)) =>
        /\ srv.result =
              handle([req.message EXCEPT
                         !.request = encode_utf8(json_dumps(Explicit(RequestEnvelope)).text)],
                     srv.handler)
        /\ Target.ok =>
              /\ srv.result.invoked = 1
              /\ srv.result.callee =
                    Invoke(Target.obj, Explicit(RequestEnvelope).args,
                           Explicit(RequestEnvelope).kwargs)

\* {clazz: math_ns, method: Group.reset} and nothing else: reset ran with no
\* arguments and its None came back with status 0
C18_Witness ==
    /\ Handled
    /\ RequestDecodes
    /\ RequestEnvelope.keys = {"clazz", "method"}
    /\ RequestEnvelope.method = <<"Group", Dot, "reset">>
    /\ srv.result.kind = "response"
    /\ srv.result.invoked = 1
    /\ srv.result.callee = Returns(PyNone)
    /\ HandleEnvelope.status = 0
    /\ HandleEnvelope.result = PyNone

(***************************************************************************)
(* C19.  What handle gives (payload and status, or the exception) does not *)
(* depend on the request's serialize tag or request_id: the same payload   *)
(* bytes under any other tag and id, with the same resolver, give the same *)
(* result.                                                                 *)
(***************************************************************************)
\* serialize tags and correlation ids a request may carry instead
OtherTags == {0, 1, 3}
OtherIds == 0..(MaxCalls + 1)

C19_TagAndIdIgnored ==
    Handled =>
        \A s \in OtherTags : \A id \in OtherIds :
            handle([req.message EXCEPT !.serialize = s, !.request_id = id],
                   srv.handler) = srv.result

\* boom declared with serialize=1 was dispatched as under the default tag
C19_Witness ==
    /\ Handled
    /\ WrapperSent
    /\ call.func.serialize = 1
    /\ req.message.serialize = 1
    /\ req.message.request_id = 2
    /\ srv.result.kind = "response"
    /\ srv.result.response.status = -1
    /\ srv.result =
          handle([req.message EXCEPT !.serialize = DefaultSerialize, !.request_id = 1],
                 srv.handler)

(***************************************************************************)
(* C20.  In every response handle returns, the status field of the message *)
(* equals the status inside the encoded result envelope, so that a client  *)
(* deciding on the outer status and the wrapper, which decides on the      *)
(* inner one, agree.                                                       *)
(***************************************************************************)
\* what a client that reads the message's status field concludes
ByOuterStatus(response) == IF response.status = 0 THEN "return" ELSE "raise"

C20_OuterStatusIsInnerStatus ==
    (Handled /\ srv.result.kind = "response") =>
        /\ "status" \in HandleEnvelope.keys
        /\ srv.result.response.status = HandleEnvelope.status
        /\ (pc = "done" /\ WrapperSent) =>
              /\ resp.response = srv.result.response
              /\ outcome.kind = ByOuterStatus(resp.response)
              /\ outcome.kind = "raise" => outcome.error = "GrpcException"

\* a wrapper call of math_ns.boom came back with -1 outside and inside, and
\* the wrapper raised GrpcException
C20_Witness ==
    /\ Handled
    /\ pc = "done"
    /\ WrapperSent
    /\ srv.result.kind = "response"
    /\ resp.response.status = -1
    /\ ResponseEnvelope.status = -1
    /\ call.func.qualname = <<"boom">>
    /\ outcome = GrpcException("ValueError", ResponseEnvelope.message)

====
